---- MODULE Spec2Model ----
(***************************************************************************)
(* Model of the research pipeline of services/: the SuperOrchestrator      *)
(* (super_orchestrator - Copia.py) with its recursion guard, component     *)
(* wrappers and execute_synchronized_analysis, and the                     *)
(* EnhancedSearchCoordinator (enhanced_search_coordinator.py).             *)
(***************************************************************************)
EXTENDS Integers, Sequences, FiniteSets, TLC

\* ------------------------------------------------------------------ bounds
\* Largest number of simultaneously active (nested) real wrapper invocations.
MaxStack == 4
\* Cap on the value a stored depth counter is allowed to grow to.
MaxCount == 5
\* Largest number of result items one search provider returns.
MaxResults == 2

\* --------------------------------------------------------- program constants
\* self._max_recursion_depth = 3
max_recursion_depth == 3
\* if component_results['execution_stats']['success_rate'] < 50
escalation_threshold == 50

VARIABLES
    global_recursion_depth, \* self._global_recursion_depth: key -> counter
    stack,                  \* active real wrapper invocations, innermost last
    ret,                    \* payload of the wrapper invocation that returned last
    pc,                     \* position of execute_synchronized_analysis
    session_id,             \* session_id argument of the current run
    data_session,           \* data.get('session_id', 'default') of the data bag
    execution_state,        \* self.execution_state: session id -> RunState
    component_status,       \* component tier: component -> status
    component_results,      \* value returned by execute_components
    master_calls,           \* calls of master_orchestrator in the current run
    enhanced_calls,         \* calls of enhanced_orchestrator in the current run
    final_results,          \* final_results of the current run: key -> origin
    result,                 \* what execute_synchronized_analysis gave its caller
    search_input,           \* arguments and environment of the last aggregation
    search_outcome,         \* what execute_simultaneous_distinct_search gave back
    search_payload,         \* what _execute_web_search made of perform_search
    peer_pc,                \* position of a second, concurrent run on the instance
    peer_data_session,      \* data.get('session_id', 'default') of its data bag
    peer_active,            \* component whose wrapper that run is inside, or ""
    fallback_seen,          \* ghost: a wrapper answered with the fallback in this run
    query_input,            \* arguments of _generate_comprehensive_query_variations
    query_set,              \* what that call gave back
    clean_input,            \* data bag given to _clean_data_for_master
    clean_output,           \* what that call gave back
    enter_pc,               \* thread -> position inside a guarded wrapper
    enter_tmp,              \* thread -> counter value it has loaded for the +=
    sync_lock,              \* self.sync_lock: the thread holding it, or "none"
    web_input,              \* environment of execute_comprehensive_web_search
    web_outcome,            \* what that call gave back
    mcp_enabled,            \* MCPSequentialThinkingManager.enabled
    active_processes,       \* its active_processes: process id -> process
    thinking_ret,           \* what the last call of the manager gave back
    clock                   \* int(datetime.now().timestamp()), in seconds

vars == <<global_recursion_depth, stack, ret, pc, session_id, data_session,
          execution_state, component_status, component_results, master_calls,
          enhanced_calls, final_results, result, search_input, search_outcome,
          search_payload,
          peer_pc, peer_data_session, peer_active, fallback_seen,
          query_input, query_set, clean_input, clean_output, enter_pc, enter_tmp,
          sync_lock, web_input, web_outcome, mcp_enabled, active_processes,
          thinking_ret, clock>>

orchestrator_vars == <<global_recursion_depth, stack, ret, pc, session_id,
                       data_session, execution_state, component_status,
                       component_results, master_calls, enhanced_calls,
                       final_results, result, fallback_seen>>

search_vars == <<search_input, search_outcome, search_payload>>

peer_vars == <<peer_pc, peer_data_session, peer_active>>

pure_vars == <<query_input, query_set, clean_input, clean_output>>

race_vars == <<enter_pc, enter_tmp, sync_lock>>

web_vars == <<web_input, web_outcome>>

thinking_vars == <<mcp_enabled, active_processes, thinking_ret, clock>>

\* ------------------------------------------------------- component registry
\* The eight components registered by _register_all_components.
Components ==
    {"web_search", "social_analysis", "mental_drivers", "visual_proofs",
     "anti_objection", "pre_pitch", "future_predictions", "avatar_detalhado"}

\* The register_component calls in the order in which they are made.
RegistrationOrder ==
    <<"web_search", "social_analysis", "mental_drivers", "visual_proofs",
      "anti_objection", "pre_pitch", "future_predictions", "avatar_detalhado">>

\* A plausible slip: the first component waits for the last of its chain.
DependenciesWithCycle(c) ==
    CASE c = "web_search"         -> {"pre_pitch"}
      [] c = "social_analysis"    -> {"web_search"}
      [] c = "mental_drivers"     -> {"web_search", "social_analysis"}
      [] c = "visual_proofs"      -> {"mental_drivers"}
      [] c = "anti_objection"     -> {"mental_drivers"}
      [] c = "pre_pitch"          -> {"mental_drivers", "anti_objection"}
      [] c = "future_predictions" -> {"web_search", "social_analysis"}
      [] c = "avatar_detalhado"   -> {"web_search", "social_analysis"}

\* dependencies=[...] of each register_component call.
Dependencies(c) ==
    CASE c = "web_search"         -> {}
      [] c = "social_analysis"    -> {"web_search"}
      [] c = "mental_drivers"     -> {"web_search", "social_analysis"}
      [] c = "visual_proofs"      -> {"mental_drivers"}
      [] c = "anti_objection"     -> {"mental_drivers"}
      [] c = "pre_pitch"          -> {"mental_drivers", "anti_objection"}
      [] c = "future_predictions" -> {"web_search", "social_analysis"}
      [] c = "avatar_detalhado"   -> {"web_search", "social_analysis"}

\* validation_rules['required_fields'] (absent for all but mental_drivers).
RequiredFields(c) == IF c = "mental_drivers" THEN {"drivers"} ELSE {}

\* validation_rules['min_size'].
MinSize(c) == 1

\* ---------------------------------------------------------- recursion guard
EmptyTable == [k \in {} |-> 0]

\* key = f"{method_name}_{session_id}"
RecursionKey(method_name, sid) == method_name \o "_" \o sid

\* A plausible slip: reaching the ceiling already counts as exceeding it.
CheckRecursionAtCeiling(table, method_name, sid) ==
    LET key == RecursionKey(method_name, sid)
        t0  == IF key \in DOMAIN table THEN table ELSE (key :> 0) @@ table
        t1  == [t0 EXCEPT ![key] = @ + 1]
    IN  [table |-> t1, exceeded |-> t1[key] >= max_recursion_depth]

\* A plausible slip: the comparison tolerates one level more than the ceiling.
CheckRecursionOffByOne(table, method_name, sid) ==
    LET key == RecursionKey(method_name, sid)
        t0  == IF key \in DOMAIN table THEN table ELSE (key :> 0) @@ table
        t1  == [t0 EXCEPT ![key] = @ + 1]
    IN  [table |-> t1, exceeded |-> t1[key] > max_recursion_depth + 1]

\* _check_recursion: creates the counter at zero, increments it, and reports
\* whether it now exceeds the ceiling.  The table after the call and the
\* returned flag.
CheckRecursion(table, method_name, sid) ==
    LET key == RecursionKey(method_name, sid)
        t0  == IF key \in DOMAIN table THEN table ELSE (key :> 0) @@ table
        t1  == [t0 EXCEPT ![key] = @ + 1]
    IN  [table |-> t1, exceeded |-> t1[key] > max_recursion_depth]

\* A plausible slip: the cleanup takes one level off instead of zeroing.
ResetRecursionDecrement(table, method_name, sid) ==
    LET key == RecursionKey(method_name, sid)
    IN  IF key \in DOMAIN table /\ table[key] > 0
        THEN [table EXCEPT ![key] = @ - 1]
        ELSE (key :> 0) @@ table

\* _reset_recursion: self._global_recursion_depth[key] = 0
ResetRecursion(table, method_name, sid) ==
    (RecursionKey(method_name, sid) :> 0) @@ table

\* A plausible slip: the global reset leaves the table as it is.
ClearTableKeepsEntries(table) == table

\* self._global_recursion_depth.clear()
ClearTable(table) == EmptyTable

\* Value stored for a key, zero when the key has not been created.
DepthOf(table, method_name, sid) ==
    IF RecursionKey(method_name, sid) \in DOMAIN table
    THEN table[RecursionKey(method_name, sid)]
    ELSE 0

RECURSIVE SumOver(_, _)
SumOver(f, keys) ==
    IF keys = {} THEN 0
    ELSE LET k == CHOOSE x \in keys : TRUE
         IN  f[k] + SumOver(f, keys \ {k})

\* sum(self._global_recursion_depth.values())
RecursionCount(table) == SumOver(table, DOMAIN table)

\* ------------------------------------------------------- component wrappers
\* Keys of the dict every return statement of a wrapper builds.
PayloadKeys(c) ==
    CASE c = "web_search" ->
            {"search_results", "query_used", "search_engine", "total_results",
             "recursion_prevented"}
      [] c = "social_analysis" ->
            {"social_data", "analysis_status", "recursion_prevented"}
      [] c = "mental_drivers" -> {"drivers", "status", "recursion_prevented"}
      [] c = "visual_proofs" -> {"visual_proofs", "status", "recursion_prevented"}
      [] c = "anti_objection" ->
            {"anti_objection_strategy", "status", "recursion_prevented"}
      [] c = "pre_pitch" -> {"pre_pitch_content", "status", "recursion_prevented"}
      [] c = "future_predictions" ->
            {"predictions", "status", "recursion_prevented"}
      [] c = "avatar_detalhado" ->
            {"avatar_details", "status", "recursion_prevented"}

\* A wrapper's returned dict: "completed" (real logic succeeded), "error" (the
\* except branch), "fallback" (the anti-recursion marker payload).
Payload(c, kind) ==
    [comp |-> c, kind |-> kind, keys |-> PayloadKeys(c),
     recursion_prevented |-> (kind = "fallback")]

\* The wrapper did not return: salvar_erro raised inside its except branch.
WrapperRaised(c) == [comp |-> c, kind |-> "raised", keys |-> {},
              recursion_prevented |-> FALSE]

NoPayload == [comp |-> "", kind |-> "none", keys |-> {},
              recursion_prevented |-> FALSE]

\* Wrappers whose try block calls a collaborator that can call back into the
\* orchestrator (social_analysis and avatar_detalhado only build literals).
CallsService(c) == c \notin {"social_analysis", "avatar_detalhado"}

\* Wrappers whose except branch is reachable: the collaborator call sits
\* directly in the outer try.  web_search wraps WebSailor in an inner try and
\* falls back to perform_search, which swallows every exception.
CanFault(c) == c \in {"mental_drivers", "visual_proofs", "anti_objection",
                      "pre_pitch", "future_predictions"}

\* Ways a real invocation of wrapper c can end.
Outcomes(c) == IF CanFault(c) THEN {"completed", "error", "raised"}
               ELSE {"completed"}

Frame(c, sid) == [comp |-> c, sid |-> sid]

\* First statements of every wrapper: if _check_recursion(...) the fallback
\* payload is returned at once (before the try, so no reset runs); otherwise
\* the real logic starts and the invocation becomes active.
WrapperCall(c, sid) ==
    LET chk == CheckRecursion(global_recursion_depth, c, sid)
    IN  /\ global_recursion_depth' = chk.table
        /\ fallback_seen' = (fallback_seen \/ chk.exceeded)
        /\ IF chk.exceeded
           THEN /\ DepthOf(global_recursion_depth, c, sid) < MaxCount
                /\ ret' = Payload(c, "fallback")
                /\ stack' = stack
           ELSE /\ Len(stack) < MaxStack
                /\ ret' = ret
                /\ stack' = Append(stack, Frame(c, sid))

\* The collaborator called by the innermost active wrapper calls the same
\* wrapper again for the same session (directly or through another tier).
NestedInvoke ==
    /\ stack # <<>>
    /\ CallsService(stack[Len(stack)].comp)
    /\ WrapperCall(stack[Len(stack)].comp, stack[Len(stack)].sid)
    /\ UNCHANGED <<pc, session_id, data_session, execution_state,
                   component_status, component_results, master_calls,
                   enhanced_calls, final_results, result, search_vars,
                   peer_vars, pure_vars, web_vars, thinking_vars, race_vars>>

\* The innermost active wrapper leaves its try block: it returns its payload
\* or lets the exception of salvar_erro through, and in both cases the finally
\* clause resets the counter of its key.
WrapperReturn ==
    /\ stack # <<>>
    /\ LET top == stack[Len(stack)]
       IN  /\ \E o \in Outcomes(top.comp) :
                ret' = IF o = "raised" THEN WrapperRaised(top.comp)
                       ELSE Payload(top.comp, o)
           /\ global_recursion_depth' =
                ResetRecursion(global_recursion_depth, top.comp, top.sid)
           /\ stack' = SubSeq(stack, 1, Len(stack) - 1)
    /\ UNCHANGED <<pc, session_id, data_session, execution_state,
                   component_status, component_results, master_calls,
                   enhanced_calls, final_results, result, search_vars, peer_vars, pure_vars, web_vars, thinking_vars,
                   race_vars, fallback_seen>>

\* ------------------------------------------------- component tier (external)
\* component_orchestrator.execute_components is not part of these sources; it
\* is modelled from the design: a component runs once every declared
\* dependency has finished (validated, or failed and accepted as an absent
\* upstream value), its result is checked against its validation rule, and the
\* success rate is the share of validated components.
Finished == {"SUCCEEDED", "FAILED"}

NoneStarted == [c \in Components |-> "NOT_STARTED"]

\* A plausible slip: one finished dependency is taken to be enough.
EligibleOnAnyDependency(status, c) ==
    /\ status[c] = "NOT_STARTED"
    /\ \/ Dependencies(c) = {}
       \/ \E d \in Dependencies(c) : status[d] \in Finished

Eligible(status, c) ==
    /\ status[c] = "NOT_STARTED"
    /\ \A d \in Dependencies(c) : status[d] \in Finished

\* The validation rule of c applied to a returned payload: a dict (type),
\* holding the required fields, with at least min_size entries.
Validate(c, p) ==
    /\ p.kind \in {"completed", "error", "fallback"}
    /\ p.comp = c
    /\ RequiredFields(c) \subseteq p.keys
    /\ Cardinality(p.keys) >= MinSize(c)

Successful(status) == {c \in Components : status[c] = "SUCCEEDED"}

Failed(status) == {c \in Components : status[c] = "FAILED"}

SuccessRate(status) ==
    (100 * Cardinality(Successful(status))) \div Cardinality(Components)

ExecutionResult(status) ==
    [successful_components |-> Successful(status),
     failed_components |-> Failed(status),
     execution_stats |-> [success_rate |-> SuccessRate(status)]]

NoResults == [successful_components |-> {}, failed_components |-> {},
              execution_stats |-> [success_rate |-> 0]]

\* ------------------------------------------- execute_synchronized_analysis
SessionIds == {"s1"}

\* data.get('session_id', 'default'): the bag carries a session id or none.
DataSessions == SessionIds \cup {"default"}

\* self.execution_state[session_id] = {...} at the start of a run.
RunningState ==
    [status |-> "running", components_completed |-> {}, errors |-> <<>>,
     recursion_prevented |-> 0]

\* safe_component_progress_callback: components_completed = list(range(step)).
ProgressUpdate(state, sid, step) ==
    IF sid \in DOMAIN state
    THEN [state EXCEPT ![sid].components_completed = 0 .. (step - 1)]
    ELSE state

SetStatus(state, sid, status) == [state EXCEPT ![sid].status = status]

\* A plausible slip: the boundary rate itself escalates.
NeedsMasterInclusive(rate) == rate <= escalation_threshold

\* The comparison of phase 3: escalate to the Master tier?
NeedsMaster(rate) == rate < escalation_threshold

\* _combine_orchestrator_results
CombineOrchestratorResults(cr, mr, od, sid) ==
    [component_orchestrator_results |-> cr,
     master_orchestrator_results |-> mr,
     original_input_data |-> od,
     combined_timestamp |-> "now",
     session_id |-> sid]

\* _enhance_component_results
EnhanceComponentResults(cr, od, sid) ==
    [component_orchestrator_results |-> cr,
     original_input_data |-> od,
     enhanced_timestamp |-> "now",
     session_id |-> sid]

\* _merge_enhanced_results: {**current_results, **enhanced_results}
MergeEnhancedResults(current, enhanced) == enhanced @@ current

\* _consolidate_all_results_safe
ConsolidateAllResultsSafe(fr, service_status, sid) ==
    [final_analysis_report |-> fr,
     service_health_status |-> service_status,
     session_id |-> sid,
     status |-> "consolidated_safe"]

\* partial_results of the emergency path.
PartialResults(sid) ==
    [session_id |-> sid, error_occurred |-> TRUE, partial_data |-> "data",
     anti_recursion_applied |-> TRUE]

NoReport == [status |-> "none"]

NotReturned ==
    [kind |-> "none", success |-> FALSE, sync_status |-> "", report |-> NoReport,
     recursion_prevented |-> 0]

\* The return statement of the normal path.
PerfectSync(report, count) ==
    [kind |-> "returned", success |-> TRUE,
     sync_status |-> "PERFECT_SYNC_NO_RECURSION", report |-> report,
     recursion_prevented |-> count]

\* The return statement of the emergency path.
EmergencyRecovery(report) ==
    [kind |-> "returned", success |-> TRUE,
     sync_status |-> "EMERGENCY_RECOVERY_NO_RECURSION", report |-> report,
     recursion_prevented |-> 0]

\* _generate_emergency_fallback
GenerateEmergencyFallback ==
    [kind |-> "returned", success |-> FALSE, sync_status |-> "EMERGENCY_FALLBACK",
     report |-> NoReport, recursion_prevented |-> 0]

\* An exception left execute_synchronized_analysis.
Escaped ==
    [kind |-> "raised", success |-> FALSE, sync_status |-> "", report |-> NoReport,
     recursion_prevented |-> 0]

\* Lines 172-201: global reset of the recursion table, the RunState record, the
\* start record handed to persistence (its raising enters the except branch)
\* and the service status check, which contains its own faults.
StartAnalysis ==
    /\ pc \in {"idle", "done"}
    /\ \E sid \in SessionIds, ds \in DataSessions, saved \in BOOLEAN :
          /\ session_id' = sid
          /\ data_session' = ds
          /\ execution_state' = (sid :> RunningState) @@ execution_state
          /\ pc' = IF saved THEN "components" ELSE "except"
    /\ global_recursion_depth' = ClearTable(global_recursion_depth)
    /\ component_status' = NoneStarted
    /\ component_results' = NoResults
    /\ master_calls' = 0
    /\ enhanced_calls' = 0
    /\ final_results' = <<>>
    /\ result' = NotReturned
    /\ fallback_seen' = FALSE
    /\ UNCHANGED <<stack, ret, search_vars, peer_vars, pure_vars, web_vars, thinking_vars, race_vars>>

\* The component tier starts an eligible component: it calls the registered
\* wrapper with the data bag.
ComponentInvoke ==
    /\ pc = "components"
    /\ stack = <<>>
    /\ \A d \in Components : component_status[d] # "RUNNING"
    /\ \E c \in Components :
          /\ Eligible(component_status, c)
          /\ component_status' = [component_status EXCEPT ![c] = "RUNNING"]
          /\ WrapperCall(c, data_session)
    /\ UNCHANGED <<pc, session_id, data_session, execution_state,
                   component_results, master_calls, enhanced_calls,
                   final_results, result, search_vars, peer_vars, pure_vars, web_vars, thinking_vars,
                   race_vars>>

\* The wrapper has come back to the component tier: the payload is validated
\* and progress is reported through safe_component_progress_callback.
ComponentFinish ==
    /\ pc = "components"
    /\ stack = <<>>
    /\ \E c \in Components :
          /\ component_status[c] = "RUNNING"
          /\ component_status' =
                [component_status EXCEPT
                    ![c] = IF Validate(c, ret) THEN "SUCCEEDED" ELSE "FAILED"]
    /\ execution_state' =
          ProgressUpdate(execution_state, session_id,
              Cardinality({d \in Components : component_status'[d] \in Finished}))
    /\ UNCHANGED <<global_recursion_depth, stack, ret, pc, session_id,
                   data_session, component_results, master_calls,
                   enhanced_calls, final_results, result, search_vars, peer_vars, pure_vars, web_vars, thinking_vars,
                   race_vars, fallback_seen>>

\* execute_components returns its ExecutionResult (line 217).
ComponentsDone ==
    /\ pc = "components"
    /\ \A c \in Components : component_status[c] \in Finished
    /\ component_results' = ExecutionResult(component_status)
    /\ pc' = "phase3"
    /\ UNCHANGED <<global_recursion_depth, stack, ret, session_id, data_session,
                   execution_state, component_status, master_calls,
                   enhanced_calls, final_results, result, search_vars, peer_vars, pure_vars, web_vars, thinking_vars,
                   race_vars, fallback_seen>>

\* execute_components itself raises (between two components).
ComponentTierFault ==
    /\ pc = "components"
    /\ stack = <<>>
    /\ \A d \in Components : component_status[d] # "RUNNING"
    /\ pc' = "except"
    /\ UNCHANGED <<global_recursion_depth, stack, ret, session_id, data_session,
                   execution_state, component_status, component_results,
                   master_calls, enhanced_calls, final_results, result,
                   search_vars, peer_vars, pure_vars, web_vars, thinking_vars,
                   race_vars, fallback_seen>>

\* Phase 3, low success rate (lines 220-235): the Master tier runs on the
\* cleaned data; its results are combined with the component tier's.  A fault
\* of the Master tier enters the except branch.
EscalateToMaster ==
    /\ pc = "phase3"
    /\ NeedsMaster(component_results.execution_stats.success_rate)
    /\ master_calls' = master_calls + 1
    /\ \E returned \in BOOLEAN :
          IF returned
          THEN /\ final_results' =
                    CombineOrchestratorResults(component_results,
                        "master_results", "clean_data", session_id)
               /\ pc' = "phase4"
          ELSE /\ final_results' = final_results
               /\ pc' = "except"
    /\ UNCHANGED <<global_recursion_depth, stack, ret, session_id, data_session,
                   execution_state, component_status, component_results,
                   enhanced_calls, result, search_vars, peer_vars, pure_vars, web_vars, thinking_vars,
                   race_vars, fallback_seen>>

\* Phase 3, otherwise (lines 237-241).
KeepComponentResults ==
    /\ pc = "phase3"
    /\ ~NeedsMaster(component_results.execution_stats.success_rate)
    /\ final_results' =
          EnhanceComponentResults(component_results, "data", session_id)
    /\ pc' = "phase4"
    /\ UNCHANGED <<global_recursion_depth, stack, ret, session_id, data_session,
                   execution_state, component_status, component_results,
                   master_calls, enhanced_calls, result, search_vars, peer_vars, pure_vars, web_vars, thinking_vars,
                   race_vars, fallback_seen>>

\* Phase 4 (lines 243-264): the enhanced tier runs only when the recursion
\* table sums to zero; its fault is caught and recorded, and only a fault of
\* that record (salvar_erro) enters the except branch.
ApplyEnhanced ==
    /\ pc = "phase4"
    /\ LET recursion_count == RecursionCount(global_recursion_depth)
       IN  IF recursion_count = 0
           THEN /\ enhanced_calls' = enhanced_calls + 1
                /\ execution_state' = execution_state
                /\ \E returned \in BOOLEAN, saved \in BOOLEAN :
                      /\ final_results' =
                            IF returned
                            THEN MergeEnhancedResults(final_results,
                                     [enhanced_analysis |-> "enhanced_results"])
                            ELSE final_results
                      /\ pc' = IF returned \/ saved THEN "phase5" ELSE "except"
           ELSE /\ enhanced_calls' = enhanced_calls
                /\ execution_state' =
                      [execution_state EXCEPT
                          ![session_id].recursion_prevented = recursion_count]
                /\ final_results' = final_results
                /\ pc' = "phase5"
    /\ UNCHANGED <<global_recursion_depth, stack, ret, session_id, data_session,
                   component_status, component_results, master_calls, result,
                   search_vars, peer_vars, pure_vars, web_vars, thinking_vars,
                   race_vars, fallback_seen>>

\* Phases 5 and 6 and the normal return (lines 266-304): the report is
\* consolidated and saved; a fault of the save enters the except branch.
ConsolidateAndReturn ==
    /\ pc = "phase5"
    /\ \E saved \in BOOLEAN :
          IF saved
          THEN /\ execution_state' =
                    SetStatus(execution_state, session_id, "completed")
               /\ global_recursion_depth' = ClearTable(global_recursion_depth)
               /\ result' =
                    PerfectSync(
                        ConsolidateAllResultsSafe(final_results, "checked",
                                                  session_id),
                        RecursionCount(global_recursion_depth))
               /\ pc' = "done"
          ELSE /\ UNCHANGED <<execution_state, global_recursion_depth, result>>
               /\ pc' = "except"
    /\ UNCHANGED <<stack, ret, session_id, data_session, component_status,
                   component_results, master_calls, enhanced_calls,
                   final_results, search_vars, peer_vars, pure_vars, web_vars, thinking_vars,
                   race_vars, fallback_seen>>

\* The except branch (lines 306-365).  salvar_erro is called before the inner
\* try, so its raising leaves the method; otherwise the table is cleared and
\* the emergency report is consolidated and saved, and a fault of that save
\* gives the emergency fallback.
EmergencyPath ==
    /\ pc = "except"
    /\ \E recorded \in BOOLEAN, saved \in BOOLEAN :
          IF ~recorded
          THEN /\ result' = Escaped
               /\ UNCHANGED <<global_recursion_depth, execution_state>>
          ELSE /\ global_recursion_depth' = ClearTable(global_recursion_depth)
               /\ IF saved
                  THEN /\ execution_state' =
                            SetStatus(execution_state, session_id,
                                      "completed_with_errors")
                       /\ result' =
                            EmergencyRecovery(
                                ConsolidateAllResultsSafe(
                                    PartialResults(session_id), "emergency",
                                    session_id))
                  ELSE /\ execution_state' =
                            SetStatus(execution_state, session_id, "failed")
                       /\ result' = GenerateEmergencyFallback
    /\ pc' = "done"
    /\ UNCHANGED <<stack, ret, session_id, data_session, component_status,
                   component_results, master_calls, enhanced_calls,
                   final_results, search_vars, peer_vars, pure_vars, web_vars, thinking_vars,
                   race_vars, fallback_seen>>

\* ------------------------------------------------------- a concurrent run
\* super_orchestrator is one module-level instance (line 847): a second thread
\* calling execute_synchronized_analysis works on the same
\* _global_recursion_depth.  Of that run only the statements touching the table
\* are followed: the global resets and the enter / reset of a wrapper.  One
\* such run is followed, from its start to its end.
PeerSessionIds == {"s2"}

\* The second run's data bag carries its own session id.
PeerDataSessions == PeerSessionIds

\* The components of the second run that are followed.
PeerComponents == {"web_search"}

\* Line 177 in the second run.
PeerStartAnalysis ==
    /\ peer_pc = "idle"
    /\ \E ds \in PeerDataSessions : peer_data_session' = ds
    /\ global_recursion_depth' = ClearTable(global_recursion_depth)
    /\ peer_pc' = "running"
    /\ UNCHANGED <<stack, ret, pc, session_id, data_session, execution_state,
                   component_status, component_results, master_calls,
                   enhanced_calls, final_results, result, search_vars, pure_vars, web_vars, thinking_vars,
                   race_vars, fallback_seen,
                   peer_active>>

\* The second run's component tier calls a wrapper: _check_recursion, then
\* either the fallback return or the real logic.
PeerWrapperCall ==
    /\ peer_pc = "running"
    /\ peer_active = ""
    /\ \E c \in PeerComponents :
          LET chk == CheckRecursion(global_recursion_depth, c, peer_data_session)
          IN  /\ global_recursion_depth' = chk.table
              /\ IF chk.exceeded
                 THEN /\ DepthOf(global_recursion_depth, c, peer_data_session)
                            < MaxCount
                      /\ peer_active' = ""
                 ELSE peer_active' = c
    /\ UNCHANGED <<stack, ret, pc, session_id, data_session, execution_state,
                   component_status, component_results, master_calls,
                   enhanced_calls, final_results, result, search_vars, pure_vars, web_vars, thinking_vars,
                   race_vars, fallback_seen,
                   peer_pc, peer_data_session>>

\* The finally clause of the second run's wrapper.
PeerWrapperReturn ==
    /\ peer_active # ""
    /\ global_recursion_depth' =
          ResetRecursion(global_recursion_depth, peer_active, peer_data_session)
    /\ peer_active' = ""
    /\ UNCHANGED <<stack, ret, pc, session_id, data_session, execution_state,
                   component_status, component_results, master_calls,
                   enhanced_calls, final_results, result, search_vars, pure_vars, web_vars, thinking_vars,
                   race_vars, fallback_seen,
                   peer_pc, peer_data_session>>

\* Line 288 or line 311 in the second run.
PeerEndAnalysis ==
    /\ peer_pc = "running"
    /\ peer_active = ""
    /\ global_recursion_depth' = ClearTable(global_recursion_depth)
    /\ peer_pc' = "done"
    /\ UNCHANGED <<stack, ret, pc, session_id, data_session, execution_state,
                   component_status, component_results, master_calls,
                   enhanced_calls, final_results, result, search_vars, pure_vars, web_vars, thinking_vars,
                   race_vars, fallback_seen,
                   peer_data_session, peer_active>>

\* ------------------------------------------------ EnhancedSearchCoordinator
Providers == {"exa", "google", "other"}

\* The methods class EnhancedSearchCoordinator defines (lines 27-586).
CoordinatorMethods ==
    {"perform_search", "execute_simultaneous_distinct_search",
     "execute_comprehensive_web_search", "_prepare_exa_neural_query",
     "_generate_comprehensive_query_variations", "_prepare_google_keyword_query",
     "_execute_exa_neural_search", "_execute_google_keyword_search",
     "_execute_other_providers_search", "_execute_deep_research_search",
     "_extract_hashtags", "_prepare_search_query"}

\* The calls of salvar_etapa / salvar_erro made by the aggregation: the query
\* record (line 78), a per-provider checkpoint (151, 159, 167), the error
\* record (171) and the consolidated record (193).
WritePoints == {"queries", "checkpoint", "error_record", "final"}

\* What future.result(timeout=120) gives for a provider task: the dict the
\* task returned (success flag and number of results), the exception the task
\* let through, or a timeout, of a task that finishes later ("timeout") or
\* of one that never finishes ("hang").
TaskOutcomes(p) ==
    {[kind |-> "returned", success |-> TRUE, n |-> n] :
        n \in (IF p = "other" THEN 1 ELSE 0) .. MaxResults}
    \cup {[kind |-> "returned", success |-> FALSE, n |-> 0]}
    \cup {[kind |-> k, success |-> FALSE, n |-> 0] :
              k \in {"timeout", "hang", "raised"}}

\* futures, in the order the tasks are submitted (lines 126-138).
Dispatched(in) ==
    (IF in.exa_available THEN <<"exa">> ELSE <<>>)
    \o (IF in.google_available THEN <<"google">> ELSE <<>>)
    \o <<"other">>

DispatchedSet(in) == {Dispatched(in)[i] : i \in 1 .. Len(Dispatched(in))}

\* The provider tasks that can be the first to complete: any submitted task
\* that finishes at all ("none" when every submitted task hangs).
FirstFinishers(in) ==
    LET f == {p \in DispatchedSet(in) : in.task[p].kind # "hang"}
    IN  IF f = {} THEN {"none"} ELSE f

\* Availability of the providers, behaviour of each task, the write points
\* at which persistence raises, and the task that completes first.
SearchInputs ==
    {in \in
        [exa_available : BOOLEAN, google_available : BOOLEAN,
         task : [Providers -> UNION {TaskOutcomes(p) : p \in Providers}],
         persist_fail : SUBSET WritePoints,
         first_finished : Providers \cup {"none"}] :
        /\ \A p \in Providers : in.task[p] \in TaskOutcomes(p)
        /\ in.first_finished \in FirstFinishers(in)}

\* search_results as built at lines 87-114; a result list is modelled by its
\* length, the <provider>_error keys by the set of their providers, the
\* 'error' key by a flag.  statistics has no 'other_count' and search_results
\* no 'other_results' until the 'other' branch of the loop stores them.
\* merge_order lists the providers in the order the loop stored (and
\* checkpointed) their results.
InitialEnvelope ==
    [results |->
        [k \in {"exa_results", "google_results", "deep_research_results",
                "social_media_results", "news_results", "academic_results",
                "competitor_results", "trend_results"} |-> 0],
     statistics |->
        [k \in {"total_results", "total_sources", "exa_count", "google_count",
                "deep_research_count", "social_count", "news_count",
                "academic_count", "competitor_count", "trend_count"} |-> 0],
     provider_errors |-> {},
     error |-> FALSE,
     merge_order |-> <<>>]

NotCalled == [kind |-> "none", exception |-> "", envelope |-> <<>>]

\* The call never comes back: leaving the executor block waits for every
\* submitted task (shutdown(wait=True)).
SearchBlocked == [kind |-> "blocked", exception |-> "", envelope |-> <<>>]

SearchRaised(e) == [kind |-> "raised", exception |-> e, envelope |-> <<>>]

SearchReturned(env) == [kind |-> "returned", exception |-> "", envelope |-> env]

\* One iteration of the collecting loop (lines 141-175).
CollectOne(p, in, st) ==
    IF st.exception # ""
    THEN st
    ELSE LET t == in.task[p]
             delivered == t.kind = "returned"
             env1 == IF delivered
                     THEN [st.envelope EXCEPT
                             !.results = ((p \o "_results") :> t.n) @@ @,
                             !.statistics = ((p \o "_count") :> t.n) @@ @,
                             !.merge_order = Append(@, p)]
                     ELSE st.envelope
             faulted == ~delivered \/ "checkpoint" \in in.persist_fail
         IN  IF ~faulted
             THEN [envelope |-> env1, exception |-> ""]
             ELSE IF "error_record" \in in.persist_fail
                  THEN [envelope |-> env1, exception |-> "PersistenceError"]
                  ELSE [envelope |->
                            [env1 EXCEPT !.provider_errors = @ \cup {p}],
                        exception |-> ""]

RECURSIVE CollectResults(_, _, _)
CollectResults(order, in, st) ==
    IF order = <<>> THEN st
    ELSE CollectResults(Tail(order), in, CollectOne(Head(order), in, st))

\* Lines 177-198: the total of the three counts, the error note when the
\* total is zero, the consolidated record, the return.
FinalStatistics(in, st) ==
    IF st.exception # ""
    THEN SearchRaised(st.exception)
    ELSE IF "other_count" \notin DOMAIN st.envelope.statistics
    THEN SearchRaised("KeyError")
    ELSE LET stats == st.envelope.statistics
             total == stats["exa_count"] + stats["google_count"]
                      + stats["other_count"]
             env2  == [st.envelope EXCEPT
                          !.statistics["total_results"] = total,
                          !.error = (total = 0)]
         IN  IF "final" \in in.persist_fail
             THEN SearchRaised("PersistenceError")
             ELSE SearchReturned(env2)

\* Looking up a method on the coordinator instance.
HasMethod(name) == name \in CoordinatorMethods

\* Leaving "with ThreadPoolExecutor(...) as executor" (line 119), normally or
\* through an exception, waits until every submitted task has finished.
ExecutorShutdownBlocks(in) ==
    \E p \in DispatchedSet(in) : in.task[p].kind = "hang"

\* execute_simultaneous_distinct_search (lines 64-198).  Line 123 calls
\* self._prepare_exa_neural_search, inside the executor block, before any task
\* is submitted and outside any try.
ExecuteSimultaneousDistinctSearch(in) ==
    IF "queries" \in in.persist_fail
    THEN SearchRaised("PersistenceError")
    ELSE IF ~HasMethod("_prepare_exa_neural_search")
    THEN SearchRaised("AttributeError")
    ELSE IF ExecutorShutdownBlocks(in)
    THEN SearchBlocked
    ELSE FinalStatistics(in,
            CollectResults(Dispatched(in), in,
                [envelope |-> InitialEnvelope, exception |-> ""]))

\* A caller runs one aggregation with the arguments and environment at hand.
ExecuteSearch ==
    /\ search_outcome.kind = "none"
    /\ search_outcome' = ExecuteSimultaneousDistinctSearch(search_input)
    /\ UNCHANGED <<search_input, search_payload, orchestrator_vars, peer_vars,
                   pure_vars, web_vars, thinking_vars, race_vars>>

\* dict.get(key) on the result lists of an envelope: the length stored, 0 for
\* a missing key.
ResultCount(env, key) ==
    IF key \in DOMAIN env.results THEN env.results[key] ELSE 0

\* perform_search (lines 40-62): the three result lists of the envelope joined
\* into one list (modelled by its length); any exception of the aggregation
\* is logged and an empty list returned.
PerformSearch(outcome) ==
    IF outcome.kind = "returned"
    THEN ResultCount(outcome.envelope, "exa_results")
         + ResultCount(outcome.envelope, "google_results")
         + ResultCount(outcome.envelope, "other_results")
    ELSE 0

NoSearchPayload ==
    [kind |-> "none", search_engine |-> "", total_results |-> 0,
     search_results |-> [items |-> 0, error |-> FALSE],
     recursion_prevented |-> FALSE]

\* The dict _execute_web_search returns after its fallback to the coordinator
\* (lines 518-526): search_results is the list perform_search gave.
CoordinatorPayload(n) ==
    [kind |-> "returned", search_engine |-> "enhanced_search_coordinator",
     total_results |-> n,
     search_results |-> [items |-> n, error |-> FALSE],
     recursion_prevented |-> FALSE]

\* _execute_web_search, WebSailor having given nothing valid (lines 514-526):
\* perform_search runs the aggregation and the wrapper returns its payload,
\* unless the aggregation never comes back.
WebSearchFallback ==
    /\ search_outcome.kind = "none"
    /\ search_payload.kind = "none"
    /\ search_outcome' = ExecuteSimultaneousDistinctSearch(search_input)
    /\ search_payload' =
          IF search_outcome'.kind = "blocked"
          THEN search_payload
          ELSE CoordinatorPayload(PerformSearch(search_outcome'))
    /\ UNCHANGED <<search_input, orchestrator_vars, peer_vars,
                   pure_vars, web_vars, thinking_vars, race_vars>>

\* ------------------------------- _generate_comprehensive_query_variations
\* Calls of the generator a caller makes with the same arguments.
MaxQueryCalls == 2

BaseQueries == {"", "ia", "mercado pet", "curso online"}

ContextKeys == {"segmento", "produto"}

ContextValues == {"", "saude", "telemedicina"}

\* Every context mapping: each field present with a value, or missing.
QueryContexts == UNION {[K -> ContextValues] : K \in SUBSET ContextKeys}

QueryInputs == [base_query : BaseQueries, context : QueryContexts]

\* context.get(key, default)
ContextGet(context, key, default) ==
    IF key \in DOMAIN context THEN context[key] ELSE default

QueryCategories ==
    {"exa_neural_queries", "google_keyword_queries", "deep_research_queries",
     "social_media_queries", "news_queries", "competitor_queries",
     "trend_queries"}

\* A plausible slip: every category is derived from the context fields alone.
GenerateVariationsFromContextOnly(base_query, context) ==
    LET segmento == ContextGet(context, "segmento", "")
        produto  == ContextGet(context, "produto", "")
    IN  [cat \in QueryCategories |-> <<segmento \o produto>>]

\* _generate_comprehensive_query_variations: the seven lists of four
\* f-strings built from the base query and the two context fields.
GenerateComprehensiveQueryVariations(base_query, context) ==
    LET segmento == ContextGet(context, "segmento", "")
        produto  == ContextGet(context, "produto", "")
    IN  [exa_neural_queries |->
            <<base_query \o " insights análise neural semântica",
              base_query \o " tendências futuro oportunidades",
              base_query \o " estratégia inovação mercado",
              "análise profunda " \o segmento \o " " \o produto
                  \o " transformação digital">>,
         google_keyword_queries |->
            <<base_query \o " dados estatísticas Brasil 2024",
              base_query \o " mercado brasileiro crescimento números",
              base_query \o " pesquisa IBGE dados oficiais",
              "relatório " \o segmento \o " " \o produto
                  \o " Brasil estatísticas">>,
         deep_research_queries |->
            <<"pesquisa acadêmica " \o base_query \o " universidades",
              "estudos científicos " \o segmento \o " " \o produto,
              "papers research " \o base_query \o " metodologia",
              "dissertações teses " \o segmento \o " análise">>,
         social_media_queries |->
            <<base_query \o " discussão redes sociais",
              segmento \o " " \o produto \o " opinião pública",
              "debate " \o base_query \o " comunidades online",
              "sentimento mercado " \o segmento \o " social media">>,
         news_queries |->
            <<base_query \o " notícias recentes Brasil",
              "últimas novidades " \o segmento \o " " \o produto,
              "breaking news " \o base_query \o " mercado",
              "jornalismo " \o segmento \o " tendências atuais">>,
         competitor_queries |->
            <<"concorrentes " \o segmento \o " " \o produto \o " análise",
              "players mercado " \o base_query \o " competição",
              "benchmark " \o segmento \o " líderes mercado",
              "análise competitiva " \o base_query \o " Brasil">>,
         trend_queries |->
            <<"tendências " \o base_query \o " próximos anos",
              "futuro " \o segmento \o " " \o produto \o " previsões",
              "evolução mercado " \o base_query \o " 2024-2030",
              "transformações " \o segmento \o " tecnologia">>]

NoQueryInput == [base_query |-> "", context |-> <<>>]

\* The generator has not been called: nothing returned, nothing kept.
NoQuerySet ==
    [kind |-> "none", calls |-> 0, variations |-> <<>>, previous |-> <<>>]

\* A call of the generator with the arguments of query_input; the caller
\* keeps what its previous call returned.  The function has no raise
\* statement and no test of its arguments: it returns on every input.
GenerateQueryVariations ==
    /\ query_set.calls < MaxQueryCalls
    /\ query_set' =
          [kind       |-> "returned",
           calls      |-> query_set.calls + 1,
           variations |-> GenerateComprehensiveQueryVariations(
                              query_input.base_query, query_input.context),
           previous   |-> query_set.variations]
    /\ UNCHANGED <<query_input, clean_input, clean_output, orchestrator_vars,
                   search_vars, peer_vars, race_vars, web_vars,
                   thinking_vars>>

\* -------------------------------------------------- _clean_data_for_master
\* elif isinstance(value, dict) and len(str(value)) < 10000
max_master_dict_len == 10000

DataKeys ==
    {"segmento", "historico", "previous_results", "orchestrator_results",
     "service_results"}

\* A value of the data bag: its Python type and len(str(value)).
DataValues ==
    {[type |-> "str",      size |-> 8],
     [type |-> "list",     size |-> 3],
     [type |-> "list",     size |-> 20000],
     [type |-> "dict",     size |-> 9999],
     [type |-> "dict",     size |-> 10000],
     [type |-> "NoneType", size |-> 4]}

\* Every data bag over these keys and values.
DataBags == UNION {[K -> DataValues] : K \in SUBSET DataKeys}

\* if key not in ['previous_results', 'orchestrator_results', 'service_results']
IntermediateResultKeys ==
    {"previous_results", "orchestrator_results", "service_results"}

\* isinstance(value, (str, int, float, bool, list))
PassedTypes == {"str", "int", "float", "bool", "list"}

\* _clean_data_for_master: a new dict with the entries of data that are kept.
CleanDataForMaster(data) ==
    LET kept == {key \in DOMAIN data :
                    /\ key \notin IntermediateResultKeys
                    /\ \/ data[key].type \in PassedTypes
                       \/ /\ data[key].type = "dict"
                          /\ data[key].size < max_master_dict_len}
    IN  [key \in kept |-> data[key]]

NotCleaned == [kind |-> "none", data |-> <<>>]

\* cleaned_data = self._clean_data_for_master(data) on escalation.
CleanForMaster ==
    /\ clean_output.kind = "none"
    /\ clean_output' =
          [kind |-> "returned", data |-> CleanDataForMaster(clean_input)]
    /\ UNCHANGED <<clean_input, query_input, query_set, orchestrator_vars,
                   search_vars, peer_vars, race_vars, web_vars,
                   thinking_vars>>

\* ------------------------------------- the guard under concurrent threads
\* Threads of one process that call a registered wrapper of the module-level
\* instance during the component phase of a run.
Threads == {"t1", "t2"}

\* The wrapper they call.
RaceComponent == "web_search"

\* if key not in self._global_recursion_depth: self._global_recursion_depth[key] = 0
EnterLazyCreate ==
    /\ pc = "components"
    /\ \E t \in Threads :
          /\ enter_pc[t] = "idle"
          /\ enter_pc' = [enter_pc EXCEPT ![t] = "created"]
    /\ global_recursion_depth' =
          IF RecursionKey(RaceComponent, data_session)
                \in DOMAIN global_recursion_depth
          THEN global_recursion_depth
          ELSE (RecursionKey(RaceComponent, data_session) :> 0)
                   @@ global_recursion_depth
    /\ UNCHANGED <<stack, ret, pc, session_id, data_session, execution_state,
                   component_status, component_results, master_calls,
                   enhanced_calls, final_results, result, fallback_seen,
                   search_vars, peer_vars, pure_vars, web_vars, thinking_vars, enter_tmp, sync_lock>>

\* self._global_recursion_depth[key] += 1, first half: the value is read.
EnterLoad ==
    /\ \E t \in Threads :
          /\ enter_pc[t] = "created"
          /\ enter_tmp' =
                [enter_tmp EXCEPT ![t] =
                    DepthOf(global_recursion_depth, RaceComponent,
                            data_session)]
          /\ enter_pc' = [enter_pc EXCEPT ![t] = "loaded"]
    /\ UNCHANGED <<orchestrator_vars, search_vars, peer_vars, pure_vars, web_vars, thinking_vars,
                   sync_lock>>

\* self._global_recursion_depth[key] += 1, second half: value + 1 is stored.
EnterStore ==
    /\ \E t \in Threads :
          /\ enter_pc[t] = "loaded"
          /\ enter_tmp[t] < MaxCount
          /\ global_recursion_depth' =
                (RecursionKey(RaceComponent, data_session) :> enter_tmp[t] + 1)
                    @@ global_recursion_depth
          /\ enter_pc' = [enter_pc EXCEPT ![t] = "stored"]
    /\ UNCHANGED <<stack, ret, pc, session_id, data_session, execution_state,
                   component_status, component_results, master_calls,
                   enhanced_calls, final_results, result, fallback_seen,
                   search_vars, peer_vars, pure_vars, web_vars, thinking_vars, enter_tmp, sync_lock>>

\* if self._global_recursion_depth[key] > self._max_recursion_depth: the
\* wrapper returns the fallback at once, else it enters its try block.
EnterCompare ==
    /\ \E t \in Threads :
          /\ enter_pc[t] = "stored"
          /\ enter_pc' =
                [enter_pc EXCEPT ![t] =
                    IF DepthOf(global_recursion_depth, RaceComponent,
                               data_session) > max_recursion_depth
                    THEN "callback"
                    ELSE "active"]
    /\ UNCHANGED <<orchestrator_vars, search_vars, peer_vars, pure_vars, web_vars, thinking_vars,
                   enter_tmp, sync_lock>>

\* finally: self._reset_recursion(...), then the wrapper returns.
EnterExit ==
    /\ \E t \in Threads :
          /\ enter_pc[t] = "active"
          /\ enter_pc' = [enter_pc EXCEPT ![t] = "callback"]
    /\ global_recursion_depth' =
          ResetRecursion(global_recursion_depth, RaceComponent, data_session)
    /\ UNCHANGED <<stack, ret, pc, session_id, data_session, execution_state,
                   component_status, component_results, master_calls,
                   enhanced_calls, final_results, result, fallback_seen,
                   search_vars, peer_vars, pure_vars, web_vars, thinking_vars, enter_tmp, sync_lock>>

\* safe_component_progress_callback: with self.sync_lock
CallbackAcquire ==
    /\ sync_lock = "none"
    /\ \E t \in Threads :
          /\ enter_pc[t] = "callback"
          /\ enter_pc' = [enter_pc EXCEPT ![t] = "locked"]
          /\ sync_lock' = t
    /\ UNCHANGED <<orchestrator_vars, search_vars, peer_vars, pure_vars, web_vars, thinking_vars,
                   enter_tmp>>

\* The update of the RunState inside the with block; leaving the block
\* releases the lock before the caller's progress callback is called.
CallbackUpdate ==
    /\ \E t \in Threads :
          /\ enter_pc[t] = "locked"
          /\ sync_lock = t
          /\ enter_pc' = [enter_pc EXCEPT ![t] = "idle"]
    /\ \E step \in 1 .. 2 :
          execution_state' = ProgressUpdate(execution_state, session_id, step)
    /\ sync_lock' = "none"
    /\ UNCHANGED <<global_recursion_depth, stack, ret, pc, session_id,
                   data_session, component_status, component_results,
                   master_calls, enhanced_calls, final_results, result,
                   fallback_seen, search_vars, peer_vars, pure_vars, web_vars, thinking_vars,
                   enter_tmp>>

\* ------------------------------------- execute_comprehensive_web_search
\* Keys of the results dict filled by the search tasks.
WebProviders ==
    {"exa", "google", "deep_research", "supadata", "instagram", "youtube"}

\* Tasks whose search function is a plain "def" of the coordinator: calling it
\* gives a dict, and "await" of a dict raises TypeError inside the task.
SyncProviders == {"exa", "google", "deep_research"}

\* Tasks whose search function belongs to an imported client.
ClientProviders == WebProviders \ SyncProviders

\* What "await search_func(**kwargs)" does in a task: a response with
\* success and n results, a response without success, an exception, or a
\* return value that cannot be awaited.
WebTaskOutcomes ==
    {[kind |-> "success", n |-> k] : k \in 0 .. MaxResults}
    \cup {[kind |-> "failure", n |-> 0], [kind |-> "exception", n |-> 0],
          [kind |-> "non_awaitable", n |-> 0]}

\* The orders in which the client tasks can finish.
ClientOrders ==
    {order \in [1 .. Cardinality(ClientProviders) -> ClientProviders] :
        \A i, j \in DOMAIN order : i # j => order[i] # order[j]}

\* Every environment of a call: supadata enabled or not, what each client
\* does, and the order in which the client tasks finish.
WebInputs ==
    [supadata_enabled : BOOLEAN,
     task             : [ClientProviders -> WebTaskOutcomes],
     finish_order     : ClientOrders]

WebTaskOf(in, key) ==
    IF key \in SyncProviders
    THEN [kind |-> "non_awaitable", n |-> 0]
    ELSE in.task[key]

\* The tasks handed to asyncio.gather (lines 238-259), in the order in which
\* they run to their end: the three that fail before they suspend, then the
\* client tasks; the supadata task exists only if supadata is enabled.
WebDispatched(in) ==
    LET Created(key) == key # "supadata" \/ in.supadata_enabled
    IN  <<"exa", "google", "deep_research">>
            \o SelectSeq(in.finish_order, Created)

WebDispatchedSet(in) ==
    {WebDispatched(in)[i] : i \in DOMAIN WebDispatched(in)}

\* results and total_results as initialised at lines 204-217.
InitialWebResults ==
    [entries       |-> [key \in WebProviders |-> [kind |-> "empty", n |-> 0]],
     total_results |-> 0]

\* run_search_task (lines 219-236): a response with success is stored and its
\* list counted; anything else leaves an error record with an empty list.
RunSearchTask(key, t, res) ==
    IF t.kind = "success"
    THEN [res EXCEPT !.entries[key] = [kind |-> "response", n |-> t.n],
                     !.total_results = @ + t.n]
    ELSE [res EXCEPT !.entries[key] = [kind |-> "error_record", n |-> 0]]

\* await asyncio.gather(*search_tasks)
RECURSIVE GatherTasks(_, _, _)
GatherTasks(order, in, res) ==
    IF order = <<>> THEN res
    ELSE GatherTasks(Tail(order), in,
                     RunSearchTask(Head(order), WebTaskOf(in, Head(order)),
                                   res))

WebNotCalled == [kind |-> "none", exception |-> "", results |-> <<>>]

WebRaised(e) == [kind |-> "raised", exception |-> e, results |-> <<>>]

WebReturned(res) == [kind |-> "returned", exception |-> "", results |-> res]

\* execute_comprehensive_web_search (lines 200-266).  Lines 216 and 241 look
\* up _prepare_search_query and _prepare_exa_neural_search on the instance,
\* outside any try, before the tasks run.
ExecuteComprehensiveWebSearch(in) ==
    IF ~HasMethod("_prepare_search_query")
    THEN WebRaised("AttributeError")
    ELSE IF ~HasMethod("_prepare_exa_neural_search")
    THEN WebRaised("AttributeError")
    ELSE WebReturned(GatherTasks(WebDispatched(in), in, InitialWebResults))

\* A caller awaits one comprehensive search in the environment at hand.
ExecuteWebSearch ==
    /\ web_outcome.kind = "none"
    /\ web_outcome' = ExecuteComprehensiveWebSearch(web_input)
    /\ UNCHANGED <<web_input, orchestrator_vars, search_vars, peer_vars,
                   pure_vars, race_vars, thinking_vars>>

\* ------------------------------------------ MCPSequentialThinkingManager
\* Last second at which a call is made.
MaxClock == 1

\* Each of the four thinking frameworks is a list of six steps.
framework_steps == 6

\* initial_prompt arguments.
Prompts == {"analise de mercado pet"}

\* context arguments: left out (None) or a dict.
ThinkingContexts == {"None", "dict"}

\* What the remote service does with a request: a JSON object with success,
\* a failure (request exception or an object without success), or a JSON
\* value that is no object.
RemoteOutcomes == {"success", "failure", "malformed"}

\* f"st_{int(datetime.now().timestamp())}_{hash(initial_prompt) % 10000}":
\* the hash of a prompt is one number for the life of the interpreter and is
\* represented by the prompt.
ProcessId(now, prompt) == "st_" \o ToString(now) \o "_" \o prompt

ProcessIds == {ProcessId(now, prompt) : now \in 0 .. MaxClock, prompt \in Prompts}

\* An id no start has produced.
UnknownProcessId == "st_unknown"

\* _create_thinking_framework: the list of steps, here by step number.
CreateThinkingFramework(prompt) == [i \in 1 .. framework_steps |-> i]

\* The record stored at lines 69-79.
NewProcess(prompt, context) ==
    [initial_prompt     |-> prompt,
     context            |-> context,
     current_step       |-> 0,
     total_steps        |-> Len(CreateThinkingFramework(prompt)),
     thinking_framework |-> CreateThinkingFramework(prompt),
     status             |-> "active",
     insights           |-> <<>>,
     reasoning_chain    |-> <<>>]

\* _make_request: no request is sent when the manager is disabled.
MakeRequest(enabled, outcome) ==
    IF ~enabled
    THEN [kind |-> "failure", sent |-> FALSE]
    ELSE [kind |-> outcome, sent |-> TRUE]

\* A plausible slip: every answer of the remote service is taken as success.
StartAcceptedAlways(response) == TRUE

\* if response.get("success") at line 68
StartAccepted(response) == response.kind = "success"

\* A plausible slip: the limit test lets one more step through.
StepLimitReachedOffByOne(process) ==
    process.current_step > Len(process.thinking_framework)

\* if current_step_index >= len(process_data["thinking_framework"])
StepLimitReached(process) ==
    process.current_step >= Len(process.thinking_framework)

\* A plausible slip: the last step does not complete the process.
IsCompleteStrict(process) == process.current_step > process.total_steps

\* if process_data["current_step"] >= process_data["total_steps"]
IsComplete(process) == process.current_step >= process.total_steps

\* Lines 131-143: the step is counted, an insight and a reasoning entry are
\* appended, and the process is completed at its last step.
AdvanceSuccess(process) ==
    LET step == process.current_step + 1
        p1   == [process EXCEPT !.current_step = step,
                                !.insights = Append(@, step),
                                !.reasoning_chain = Append(@, step)]
    IN  IF IsComplete(p1) THEN [p1 EXCEPT !.status = "completed"] ELSE p1

\* A plausible slip: the failed step is counted.
AdvanceFailureCountsStep(process) ==
    [process EXCEPT !.status = "failed", !.current_step = @ + 1]

\* Line 160: process_data["status"] = "failed"
AdvanceFailure(process) == [process EXCEPT !.status = "failed"]

\* The call made no request.
NoRequest == [kind |-> "none", sent |-> FALSE]

\* What a call gave its caller: a success record, an error record or an
\* exception; the process_id field ("None" for None, "" when the record has
\* none); whether a request went to the remote service and what came back.
ThinkingReturn(op, kind, id, response, e) ==
    [op |-> op, kind |-> kind, process_id |-> id, sent |-> response.sent,
     remote |-> response.kind, exception |-> e]

NoThinkingReturn == ThinkingReturn("none", "none", "", NoRequest, "")

\* start_thinking_process (lines 40-96); an exception of the body, such as
\* response.get on a value that is no dict, is caught at line 94.
StartThinkingProcess ==
    /\ \E prompt \in Prompts, context \in ThinkingContexts,
          outcome \in RemoteOutcomes :
          LET id       == ProcessId(clock, prompt)
              response == MakeRequest(mcp_enabled, outcome)
          IN  IF ~mcp_enabled
              THEN /\ active_processes' = active_processes
                   /\ thinking_ret' =
                         ThinkingReturn("start", "error", "None", NoRequest, "")
              ELSE IF response.kind = "malformed"
              THEN /\ active_processes' = active_processes
                   /\ thinking_ret' =
                         ThinkingReturn("start", "error", "None",
                                        response, "")
              ELSE IF StartAccepted(response)
              THEN /\ active_processes' =
                         (id :> NewProcess(prompt, context)) @@ active_processes
                   /\ thinking_ret' =
                         ThinkingReturn("start", "success", id,
                                        response, "")
              ELSE /\ active_processes' = active_processes
                   /\ thinking_ret' =
                         ThinkingReturn("start", "error", "None",
                                        response, "")
    /\ UNCHANGED <<mcp_enabled, clock, orchestrator_vars, search_vars,
                   peer_vars, pure_vars, race_vars, web_vars>>

\* advance_thinking_step (lines 98-161); it has no try block: line 122
\* unpacks the stored context, and line 130 calls response.get.
AdvanceThinkingStep ==
    /\ \E id \in ProcessIds \cup {UnknownProcessId},
          outcome \in RemoteOutcomes :
          IF id \notin DOMAIN active_processes
          THEN /\ active_processes' = active_processes
               /\ thinking_ret' =
                     ThinkingReturn("advance", "error", "", NoRequest, "")
          ELSE LET process  == active_processes[id]
                   response == MakeRequest(mcp_enabled, outcome)
               IN  IF StepLimitReached(process)
                   THEN /\ active_processes' = active_processes
                        /\ thinking_ret' =
                              ThinkingReturn("advance", "error", "", NoRequest, "")
                   ELSE IF process.context = "None"
                   THEN /\ active_processes' = active_processes
                        /\ thinking_ret' =
                              ThinkingReturn("advance", "raised", "", NoRequest,
                                             "TypeError")
                   ELSE IF response.kind = "malformed"
                   THEN /\ active_processes' = active_processes
                        /\ thinking_ret' =
                              ThinkingReturn("advance", "raised", "",
                                             response, "AttributeError")
                   ELSE IF response.kind = "success"
                   THEN /\ active_processes' =
                              [active_processes EXCEPT
                                  ![id] = AdvanceSuccess(process)]
                        /\ thinking_ret' =
                              ThinkingReturn("advance", "success", id,
                                             response, "")
                   ELSE /\ active_processes' =
                              [active_processes EXCEPT
                                  ![id] = AdvanceFailure(process)]
                        /\ thinking_ret' =
                              ThinkingReturn("advance", "error", id,
                                             response, "")
    /\ UNCHANGED <<mcp_enabled, clock, orchestrator_vars, search_vars,
                   peer_vars, pure_vars, race_vars, web_vars>>

\* get_process_status (lines 164-180): reads the process, changes nothing.
GetProcessStatus ==
    /\ \E id \in ProcessIds \cup {UnknownProcessId} :
          thinking_ret' =
             IF id \in DOMAIN active_processes
             THEN ThinkingReturn("status", "success", id, NoRequest, "")
             ELSE ThinkingReturn("status", "error", "", NoRequest, "")
    /\ UNCHANGED <<mcp_enabled, active_processes, clock, orchestrator_vars,
                   search_vars, peer_vars, pure_vars, race_vars, web_vars>>

\* A second goes by between two calls.
Tick ==
    /\ clock < MaxClock
    /\ clock' = clock + 1
    /\ UNCHANGED <<mcp_enabled, active_processes, thinking_ret,
                   orchestrator_vars, search_vars, peer_vars, pure_vars,
                   race_vars, web_vars>>

\* ---------------------------------------------------------- specification
OrchestratorInit ==
    /\ global_recursion_depth = EmptyTable
    /\ stack = <<>>
    /\ ret = NoPayload
    /\ pc = "idle"
    /\ session_id = ""
    /\ data_session = "default"
    /\ execution_state = <<>>
    /\ component_status = NoneStarted
    /\ component_results = NoResults
    /\ master_calls = 0
    /\ enhanced_calls = 0
    /\ final_results = <<>>
    /\ result = NotReturned
    /\ fallback_seen = FALSE

PeerInit ==
    /\ peer_pc = "idle"
    /\ peer_data_session = ""
    /\ peer_active = ""

\* No call of the query generator or of the data cleaning is under way.
PureInit ==
    /\ query_input = NoQueryInput
    /\ query_set = NoQuerySet
    /\ clean_input = <<>>
    /\ clean_output = NotCleaned

\* No thread is inside a guarded wrapper.
RaceInit ==
    /\ enter_pc = [t \in Threads |-> "idle"]
    /\ enter_tmp = [t \in Threads |-> 0]
    /\ sync_lock = "none"

\* execute_comprehensive_web_search has not been called.
WebInit ==
    /\ web_input = <<>>
    /\ web_outcome = WebNotCalled

\* The manager as constructed with the default environment: enabled, no
\* process.
ThinkingInit ==
    /\ mcp_enabled = TRUE
    /\ active_processes = <<>>
    /\ thinking_ret = NoThinkingReturn
    /\ clock = 0

Init ==
    /\ OrchestratorInit
    /\ PeerInit
    /\ PureInit
    /\ RaceInit
    /\ WebInit
    /\ ThinkingInit
    /\ search_input = <<>>
    /\ search_outcome = NotCalled
    /\ search_payload = NoSearchPayload

\* Every aggregation call a caller can make.
SearchInit ==
    /\ OrchestratorInit
    /\ PeerInit
    /\ PureInit
    /\ RaceInit
    /\ WebInit
    /\ ThinkingInit
    /\ search_input \in SearchInputs
    /\ search_outcome = NotCalled
    /\ search_payload = NoSearchPayload

Next ==
    \/ StartAnalysis
    \/ ComponentInvoke
    \/ NestedInvoke
    \/ WrapperReturn
    \/ ComponentFinish
    \/ ComponentsDone
    \/ ComponentTierFault
    \/ EscalateToMaster
    \/ KeepComponentResults
    \/ ApplyEnhanced
    \/ ConsolidateAndReturn
    \/ EmergencyPath

Spec == Init /\ [][Next]_vars

\* Two runs interleaved on the one instance, the collaborators of the
\* wrappers not calling back into them.
ConcurrentNext ==
    \/ StartAnalysis
    \/ ComponentInvoke
    \/ WrapperReturn
    \/ ComponentFinish
    \/ ComponentsDone
    \/ ComponentTierFault
    \/ EscalateToMaster
    \/ KeepComponentResults
    \/ ApplyEnhanced
    \/ ConsolidateAndReturn
    \/ EmergencyPath
    \/ PeerStartAnalysis
    \/ PeerWrapperCall
    \/ PeerWrapperReturn
    \/ PeerEndAnalysis

ConcurrentSpec == Init /\ [][ConcurrentNext]_vars

SearchNext ==
    \/ ExecuteSearch
    \/ WebSearchFallback

\* The aggregation on its own, over every input.
SearchSpec == SearchInit /\ [][SearchNext]_vars

\* The same, the calling thread being scheduled until its call is over.
SearchFairSpec == SearchInit /\ [][SearchNext]_vars /\ WF_vars(SearchNext)

\* Every call of the query generator a caller can make.
QueryInit ==
    /\ OrchestratorInit
    /\ PeerInit
    /\ RaceInit
    /\ WebInit
    /\ ThinkingInit
    /\ search_input = <<>>
    /\ search_outcome = NotCalled
    /\ search_payload = NoSearchPayload
    /\ query_input \in QueryInputs
    /\ query_set = NoQuerySet
    /\ clean_input = <<>>
    /\ clean_output = NotCleaned

QueryNext == GenerateQueryVariations

\* The query generator on its own, over every input.
QuerySpec == QueryInit /\ [][QueryNext]_vars

\* Every data bag the cleaning can be given.
CleanInit ==
    /\ OrchestratorInit
    /\ PeerInit
    /\ RaceInit
    /\ WebInit
    /\ ThinkingInit
    /\ search_input = <<>>
    /\ search_outcome = NotCalled
    /\ search_payload = NoSearchPayload
    /\ query_input = NoQueryInput
    /\ query_set = NoQuerySet
    /\ clean_input \in DataBags
    /\ clean_output = NotCleaned

CleanNext == CleanForMaster

\* The cleaning of the Master tier's input on its own, over every data bag.
CleanSpec == CleanInit /\ [][CleanNext]_vars

RaceNext ==
    \/ StartAnalysis
    \/ EnterLazyCreate
    \/ EnterLoad
    \/ EnterStore
    \/ EnterCompare
    \/ EnterExit
    \/ CallbackAcquire
    \/ CallbackUpdate

\* A run whose component phase has two threads inside the same wrapper.
RaceSpec == Init /\ [][RaceNext]_vars

\* Every environment in which the comprehensive search can be called.
WebSearchInit ==
    /\ OrchestratorInit
    /\ PeerInit
    /\ PureInit
    /\ RaceInit
    /\ ThinkingInit
    /\ search_input = <<>>
    /\ search_outcome = NotCalled
    /\ search_payload = NoSearchPayload
    /\ web_input \in WebInputs
    /\ web_outcome = WebNotCalled

WebSearchNext == ExecuteWebSearch

\* The comprehensive search on its own, over every environment.
WebSearchSpec == WebSearchInit /\ [][WebSearchNext]_vars

\* The manager as constructed: MCP_SEQUENTIAL_THINKING_ENABLED set or not.
ThinkingManagerInit ==
    /\ OrchestratorInit
    /\ PeerInit
    /\ PureInit
    /\ RaceInit
    /\ WebInit
    /\ search_input = <<>>
    /\ search_outcome = NotCalled
    /\ search_payload = NoSearchPayload
    /\ mcp_enabled \in BOOLEAN
    /\ active_processes = <<>>
    /\ thinking_ret = NoThinkingReturn
    /\ clock = 0

ThinkingNext ==
    \/ StartThinkingProcess
    \/ AdvanceThinkingStep
    \/ GetProcessStatus
    \/ Tick

\* Any sequence of calls of the manager, with any remote outcomes.
ThinkingSpec == ThinkingManagerInit /\ [][ThinkingNext]_vars

\* ================================================================== claims
TierTags == {"PERFECT_SYNC_NO_RECURSION", "EMERGENCY_RECOVERY_NO_RECURSION",
             "EMERGENCY_FALLBACK"}

\* The per-provider count entries of statistics.
CountKeys(stats) == DOMAIN stats \ {"total_results", "total_sources"}

SearchDone == search_outcome.kind # "none"

\* C1: every aggregation call returns an envelope and never raises; when every
\* dispatched provider failed the envelope has total_results = 0 and the
\* failure signal.
C1_AggregationAlwaysReturnsEnvelope ==
    SearchDone =>
        /\ search_outcome.kind = "returned"
        /\ (\A p \in DispatchedSet(search_input) :
                ~search_input.task[p].success)
            => /\ search_outcome.envelope.statistics["total_results"] = 0
               /\ search_outcome.envelope.error

\* C2: whenever execute_synchronized_analysis is over, its caller holds a
\* returned record whose sync_status is one of the three tier tags; no
\* exception has escaped.
C2_RunAlwaysReturnsTierTag ==
    pc = "done" =>
        /\ result.kind = "returned"
        /\ result.sync_status \in TierTags

\* C3: the aggregation hands back an envelope whose statistics.total_results
\* equals the sum of the per-provider counts recorded in statistics, also when
\* providers errored or timed out.
C3_EnvelopeTotalIsSumOfCounts ==
    SearchDone =>
        /\ search_outcome.kind = "returned"
        /\ search_outcome.envelope.statistics["total_results"] =
              SumOver(search_outcome.envelope.statistics,
                      CountKeys(search_outcome.envelope.statistics))

\* C4: the envelope handed back carries the overall-failure signal (the error
\* field) exactly when every dispatched provider's result has success = false.
C4_OverallFailureIffEveryProviderFailed ==
    SearchDone =>
        /\ search_outcome.kind = "returned"
        /\ search_outcome.envelope.error <=>
              (\A p \in DispatchedSet(search_input) :
                  ~search_input.task[p].success)

\* The case of C5: all three providers dispatched, persistence working, exactly
\* one provider raising or timing out, the two others succeeding with at
\* least one result between them.
OneProviderFails(in) ==
    /\ in.exa_available /\ in.google_available
    /\ in.persist_fail = {}
    /\ \E f \in Providers :
          /\ in.task[f].kind \in {"timeout", "raised"}
          /\ \A p \in Providers \ {f} :
                in.task[p].kind = "returned" /\ in.task[p].success
          /\ \E p \in Providers \ {f} : in.task[p].n > 0

\* C5: when a single provider raises or times out and the others succeed with
\* m and n results, the envelope has total_results = m + n, no overall-failure
\* signal, and an error record for exactly the provider that failed.
C5_PartialFailureTolerated ==
    (SearchDone /\ OneProviderFails(search_input)) =>
        /\ search_outcome.kind = "returned"
        /\ search_outcome.envelope.statistics["total_results"] =
              SumOver([p \in Providers |-> search_input.task[p].n], Providers)
        /\ ~search_outcome.envelope.error
        /\ search_outcome.envelope.provider_errors =
              {p \in Providers : search_input.task[p].kind # "returned"}

\* C6: a component has been started, or its wrapper is active on behalf of the
\* component tier, only if every declared dependency has finished in this run
\* (validated, or failed and accepted).
C6_DependenciesFinishedBeforeInvocation ==
    pc = "components" =>
        /\ \A c \in Components :
              component_status[c] # "NOT_STARTED" =>
                 \A d \in Dependencies(c) : component_status[d] \in Finished
        /\ \A i \in DOMAIN stack :
              /\ component_status[stack[i].comp] = "RUNNING"
              /\ \A d \in Dependencies(stack[i].comp) :
                    component_status[d] \in Finished

\* pre_pitch runs on an accepted failure of anti_objection.
C6_Witness ==
    /\ pc = "components"
    /\ stack # <<>>
    /\ stack[1].comp = "pre_pitch"
    /\ component_status["anti_objection"] = "FAILED"
    /\ component_status["mental_drivers"] = "SUCCEEDED"

\* C7: the Master tier is called at most once in a run and only below a
\* success rate of 50; past phase 3 it has been called exactly when the rate
\* is below 50, and then final_results holds the component tier's output and
\* the Master tier's output, each under its own key.
C7_EscalationExactlyOnceAndMerged ==
    /\ master_calls <= 1
    /\ master_calls = 1 =>
          /\ pc \in {"phase4", "phase5", "except", "done"}
          /\ component_results.execution_stats.success_rate < 50
    /\ pc \in {"phase4", "phase5"} =>
          /\ master_calls = 1 <=>
                component_results.execution_stats.success_rate < 50
          /\ "component_orchestrator_results" \in DOMAIN final_results
          /\ final_results["component_orchestrator_results"] = component_results
          /\ master_calls = 1 =>
                /\ "master_orchestrator_results" \in DOMAIN final_results
                /\ final_results["master_orchestrator_results"] = "master_results"
          /\ master_calls = 0 =>
                "master_orchestrator_results" \notin DOMAIN final_results

C7_Witness ==
    /\ pc = "phase5"
    /\ master_calls = 1
    /\ "enhanced_analysis" \in DOMAIN final_results

\* C8 (as claimed): every stored depth counter is at most the ceiling.
C8_DepthNeverExceedsCeiling ==
    \A k \in DOMAIN global_recursion_depth :
        global_recursion_depth[k] <= max_recursion_depth

\* C8 (amended): a stored depth counter exceeds the ceiling only through an
\* enter that signalled ceiling-exceeded: whenever a counter is above the
\* ceiling, it is the counter of the innermost active invocation's key and the
\* wrapper invocation that returned last gave the fallback payload of that
\* component.
C8_DepthExceedsCeilingOnlyWithFallback ==
    \A k \in DOMAIN global_recursion_depth :
        global_recursion_depth[k] > max_recursion_depth =>
            /\ stack # <<>>
            /\ k = RecursionKey(stack[Len(stack)].comp, stack[Len(stack)].sid)
            /\ ret = Payload(stack[Len(stack)].comp, "fallback")

C8_Witness ==
    /\ ret.kind = "fallback"
    /\ \E k \in DOMAIN global_recursion_depth :
          global_recursion_depth[k] = max_recursion_depth + 1

\* The next invocation of the wrapper of c for session s returns the fallback.
Armed(table, c, s) == CheckRecursion(table, c, s).exceeded

\* C9 (as claimed): once the counter of a (component, run) key has reached the
\* ceiling, invocations of the wrapper keep returning the fallback until the
\* run ends: a key whose next invocation returns the fallback stays so for as
\* long as the run continues with an invocation of the component active.
C9_FallbackUntilRunEnds ==
    [][\A c \in Components, s \in DataSessions :
          (/\ Armed(global_recursion_depth, c, s)
           /\ pc' = pc
           /\ stack' # <<>>)
          => Armed(global_recursion_depth', c, s)]_vars

\* C9 (amended): while the stored counter of a key is at or above the ceiling,
\* every invocation of the wrapper returns the fallback payload and starts no
\* real logic.
C9_FallbackWhileCounterAtCeiling ==
    [][\A c \in Components, s \in DataSessions :
          (/\ DepthOf(global_recursion_depth, c, s) >= max_recursion_depth
           /\ DepthOf(global_recursion_depth', c, s) =
                 DepthOf(global_recursion_depth, c, s) + 1)
          => /\ stack' = stack
             /\ ret' = Payload(c, "fallback")]_vars

\* Two invocations in a row were answered with the fallback.
C9_Witness ==
    /\ ret.kind = "fallback"
    /\ Len(stack) = max_recursion_depth
    /\ \E k \in DOMAIN global_recursion_depth :
          global_recursion_depth[k] = max_recursion_depth + 2

\* C10: for every key, the number of simultaneously active real invocations
\* is at most the ceiling.
C10_ActiveRealInvocationsBounded ==
    \A c \in Components, s \in DataSessions :
        Cardinality({i \in DOMAIN stack : stack[i] = Frame(c, s)})
            <= max_recursion_depth

\* C11: enter adds exactly one to the counter of its key, creating the key at
\* zero when absent and leaving every other key alone, and signals exactly when
\* the counter after the increment is above the ceiling; from an empty table
\* the first three calls give false and the fourth gives true.
C11_EnterIncrementsAndSignalsAboveCeiling ==
    /\ \A c \in Components, s \in DataSessions :
          LET r == CheckRecursion(global_recursion_depth, c, s)
          IN  /\ DOMAIN r.table =
                    DOMAIN global_recursion_depth \cup {RecursionKey(c, s)}
              /\ DepthOf(r.table, c, s) =
                    DepthOf(global_recursion_depth, c, s) + 1
              /\ \A k \in DOMAIN global_recursion_depth \ {RecursionKey(c, s)} :
                    r.table[k] = global_recursion_depth[k]
              /\ r.exceeded <=> DepthOf(r.table, c, s) > max_recursion_depth
    /\ LET e1 == CheckRecursion(EmptyTable, "web_search", "s1")
           e2 == CheckRecursion(e1.table, "web_search", "s1")
           e3 == CheckRecursion(e2.table, "web_search", "s1")
           e4 == CheckRecursion(e3.table, "web_search", "s1")
       IN  <<e1.exceeded, e2.exceeded, e3.exceeded, e4.exceeded>> =
              <<FALSE, FALSE, FALSE, TRUE>>

\* Three nested invocations of one key ran real logic and the fourth enter
\* was answered with the fallback.
C11_Witness ==
    \E c \in Components, s \in DataSessions :
        /\ Len(stack) = max_recursion_depth
        /\ \A i \in DOMAIN stack : stack[i] = Frame(c, s)
        /\ DepthOf(global_recursion_depth, c, s) = max_recursion_depth + 1
        /\ ret = Payload(c, "fallback")

\* In this step the innermost active invocation of the wrapper of c for
\* session s left its try block.
RealReturn(c, s) ==
    /\ stack # <<>>
    /\ stack[Len(stack)] = Frame(c, s)
    /\ stack' = SubSeq(stack, 1, Len(stack) - 1)

\* In this step an invocation of the wrapper of c for session s entered and
\* came back at once with the fallback payload.
FallbackReturn(c, s) ==
    /\ stack' = stack
    /\ DepthOf(global_recursion_depth', c, s) =
          DepthOf(global_recursion_depth, c, s) + 1

\* C12 (as claimed): after any wrapper invocation returns, be it through
\* success, a caught failure or the ceiling-exceeded fallback, the counter of
\* its key is zero.
C12_CounterZeroAfterEveryReturn ==
    [][\A c \in Components, s \in DataSessions :
          (RealReturn(c, s) \/ FallbackReturn(c, s))
          => DepthOf(global_recursion_depth', c, s) = 0]_vars

\* C12 (amended): the counter of the key is zero after every return of an
\* invocation that ran real logic; an invocation answered with the fallback
\* leaves the counter above the ceiling; and whenever no invocation is active
\* every counter is zero, so nothing accumulates across the sequential
\* invocations the component tier makes.
C12_CounterZeroAfterRealReturn ==
    [][/\ \A c \in Components, s \in DataSessions :
             /\ RealReturn(c, s) => DepthOf(global_recursion_depth', c, s) = 0
             /\ FallbackReturn(c, s) =>
                   DepthOf(global_recursion_depth', c, s) > max_recursion_depth
       /\ stack' = <<>> =>
             \A k \in DOMAIN global_recursion_depth' :
                 global_recursion_depth'[k] = 0]_vars

\* A wrapper has come back to the component tier through its except branch.
C12_Witness ==
    /\ pc = "components"
    /\ stack = <<>>
    /\ ret.kind = "error"
    /\ RecursionKey(ret.comp, data_session) \in DOMAIN global_recursion_depth
    /\ DepthOf(global_recursion_depth, ret.comp, data_session) = 0

\* C13: whenever an enter signals ceiling-exceeded (the wrapper answers with
\* the fallback), the recursion_prevented counter of the run's RunState goes
\* up by one.
C13_FallbackCountedInRunState ==
    [][\A c \in Components, s \in DataSessions :
          (FallbackReturn(c, s) /\ session_id \in DOMAIN execution_state)
          => execution_state'[session_id].recursion_prevented =
                execution_state[session_id].recursion_prevented + 1]_vars

\* C14: the recursion table is empty right after the start of a run and
\* whenever execute_synchronized_analysis has returned (normal completion,
\* emergency recovery, emergency fallback); no finished call leaves a non-zero
\* depth behind.
C14_TableClearedAtRunBoundaries ==
    /\ (pc = "components" /\ component_status = NoneStarted /\ stack = <<>>)
          => global_recursion_depth = EmptyTable
    /\ (pc = "done" /\ result.kind = "returned")
          => global_recursion_depth = EmptyTable
    /\ pc = "done" =>
          \A k \in DOMAIN global_recursion_depth : global_recursion_depth[k] = 0

\* A run whose wrappers had created keys ended in the emergency fallback.
C14_Witness ==
    /\ pc = "done"
    /\ result.sync_status = "EMERGENCY_FALLBACK"
    /\ component_status["web_search"] = "SUCCEEDED"
    /\ global_recursion_depth = EmptyTable

\* C16: for every key and every stored value, reset followed by enter leaves
\* the counter at exactly 1 and enter reports false.
C16_ResetThenEnterGivesOne ==
    \A c \in Components, s \in DataSessions :
        LET r == CheckRecursion(
                     ResetRecursion(global_recursion_depth, c, s), c, s)
        IN  /\ DepthOf(r.table, c, s) = 1
            /\ ~r.exceeded

\* A nested invocation returned (reset) and the wrapper was entered again:
\* the counter restarted at 1 under two enclosing invocations.
C16_Witness ==
    \E c \in Components, s \in DataSessions :
        /\ Len(stack) = max_recursion_depth
        /\ stack[Len(stack)] = Frame(c, s)
        /\ DepthOf(global_recursion_depth, c, s) = 1
        /\ ret = Payload(c, "completed")

\* C17: when the normal path has faulted, the call ends in one of two ways:
\* the emergency report built from the input data bag with error_occurred set
\* is saved, the run status becomes completed_with_errors and the caller gets
\* success = true with the EMERGENCY_RECOVERY tag; or, the emergency path
\* having thrown, the run status becomes failed and the caller gets
\* success = false with the EMERGENCY_FALLBACK tag.
C17_EmergencyPathOutcome ==
    [][(pc = "except" /\ pc' = "done") =>
          \/ /\ result'.kind = "returned"
             /\ result'.sync_status = "EMERGENCY_RECOVERY_NO_RECURSION"
             /\ result'.success
             /\ result'.report.final_analysis_report.error_occurred
             /\ result'.report.final_analysis_report.partial_data = "data"
             /\ execution_state'[session_id].status = "completed_with_errors"
          \/ /\ result'.kind = "returned"
             /\ result'.sync_status = "EMERGENCY_FALLBACK"
             /\ ~result'.success
             /\ execution_state'[session_id].status = "failed"]_vars

\* A step of the second run / of the first run, told by the variables only
\* that run writes.
PeerStep == peer_vars' # peer_vars

OwnStep ==
    <<stack, ret, pc, component_status>>' # <<stack, ret, pc, component_status>>

\* C15: with both runs in progress under distinct identifiers, no step of the
\* second run changes the depth the first run reads for any of its
\* components, and no step of the first run changes the depth the second run
\* reads.
C15_DepthsIsolatedPerRun ==
    [][(/\ pc = "components"
        /\ peer_pc = "running"
        /\ data_session # peer_data_session) =>
          /\ PeerStep =>
                \A c \in Components :
                    DepthOf(global_recursion_depth', c, data_session) =
                        DepthOf(global_recursion_depth, c, data_session)
          /\ OwnStep =>
                \A c \in Components :
                    DepthOf(global_recursion_depth', c, peer_data_session') =
                        DepthOf(global_recursion_depth, c, peer_data_session)]_vars

AllProvidersFail(in) == \A p \in DispatchedSet(in) : ~in.task[p].success

\* C18: when every dispatched provider fails and the web search wrapper has
\* gone through the coordinator, the aggregation has returned an envelope with
\* total_results = 0 and the overall-failure signal, and the payload the
\* wrapper hands on for the report carries an error note about the search.
C18_AllProvidersFailGracefully ==
    (search_payload.kind # "none" /\ AllProvidersFail(search_input)) =>
        /\ search_outcome.kind = "returned"
        /\ search_outcome.envelope.statistics["total_results"] = 0
        /\ search_outcome.envelope.error
        /\ \/ search_payload.search_results.error
           \/ search_payload.search_engine = "error"

\* C19: once the wait for a dispatched provider has timed out, the
\* aggregation goes on to return its envelope, with a failure recorded for
\* that provider, whether the provider task ever finishes or not.
C19_SlowProviderDoesNotBlock ==
    \A p \in Providers :
        (/\ p \in DispatchedSet(search_input)
         /\ search_input.task[p].kind \in {"timeout", "hang"})
        ~> (/\ search_outcome.kind = "returned"
            /\ p \in search_outcome.envelope.provider_errors)

\* The case of C20: the provider that completes first is not the first one
\* submitted, and both deliver a result.
LaterSubmittedFinishesFirst(in) ==
    /\ in.first_finished \in DispatchedSet(in)
    /\ in.first_finished # Dispatched(in)[1]
    /\ in.task[in.first_finished].kind = "returned"
    /\ in.task[Dispatched(in)[1]].kind = "returned"

\* C20: provider results are merged and checkpointed in completion order: the
\* provider that completes first is the first one merged, also when it was
\* submitted after another provider that delivers.
C20_MergedInCompletionOrder ==
    (SearchDone /\ LaterSubmittedFinishesFirst(search_input)) =>
        /\ search_outcome.kind = "returned"
        /\ search_outcome.envelope.merge_order # <<>>
        /\ search_outcome.envelope.merge_order[1] = search_input.first_finished

\* C21: a persistence write that fails at any write point of the aggregation
\* (query record, provider checkpoint, error record, final record) does not
\* fail the aggregation: the envelope is returned and holds the results and
\* the count of every provider whose task delivered.
C21_PersistenceFailureTolerated ==
    (SearchDone /\ search_input.persist_fail # {}) =>
        /\ search_outcome.kind = "returned"
        /\ \A p \in DispatchedSet(search_input) :
              search_input.task[p].kind = "returned" =>
                 /\ ResultCount(search_outcome.envelope, p \o "_results") =
                       search_input.task[p].n
                 /\ (p \o "_count") \in
                       DOMAIN search_outcome.envelope.statistics
                 /\ search_outcome.envelope.statistics[p \o "_count"] =
                       search_input.task[p].n

\* C22: no step of a run takes a path that only a failing persistence call
\* opens: the start record is followed by the component tier, an enhanced
\* tier fault by consolidation, consolidation by the normal return, and the
\* except branch by the emergency recovery return.
C22_PersistenceNeverAbortsRun ==
    [][/\ (pc \in {"idle", "done"} /\ pc' \notin {"idle", "done"})
             => pc' = "components"
       /\ (pc = "phase4" /\ pc' # pc) => pc' = "phase5"
       /\ (pc = "phase5" /\ pc' # pc)
             => /\ pc' = "done"
                /\ result'.sync_status = "PERFECT_SYNC_NO_RECURSION"
       /\ (pc = "except" /\ pc' # pc)
             => /\ pc' = "done"
                /\ result'.sync_status = "EMERGENCY_RECOVERY_NO_RECURSION"]_vars

\* C23: the enhanced tier is called in a run only if no wrapper answered with
\* the ceiling-exceeded fallback during that run, and once phase 4 is over it
\* has been called exactly when none did.
C23_EnhancedIffNoFallbackInRun ==
    /\ enhanced_calls > 0 => ~fallback_seen
    /\ pc = "phase5" => (enhanced_calls = 1 <=> ~fallback_seen)

\* C24: when the enhanced tier is called and throws (nothing is merged), the
\* run goes on to consolidation with the results it had.
C24_EnhancedFaultNotFatal ==
    [][(/\ pc = "phase4"
        /\ enhanced_calls' = enhanced_calls + 1
        /\ final_results' = final_results)
       => pc' = "phase5"]_vars

TerminalStatuses == {"completed", "completed_with_errors", "failed"}

\* C25: for every run identifier the status only moves from running to one
\* of the terminal statuses, a terminal status never changes again, and a
\* call that is over has left a terminal status.
C25_RunStateMachine ==
    [][/\ \A sid \in DOMAIN execution_state :
             /\ execution_state[sid].status \in TerminalStatuses
                   => execution_state'[sid].status = execution_state[sid].status
             /\ execution_state'[sid].status # execution_state[sid].status
                   => /\ execution_state[sid].status = "running"
                      /\ execution_state'[sid].status \in TerminalStatuses
       /\ (pc # "done" /\ pc' = "done")
             => execution_state'[session_id'].status \in TerminalStatuses]_vars

\* C30: a component whose wrapper came back through its except branch (its
\* service raised) fails validation and is counted as failed.
C30_FaultedComponentFailsValidation ==
    [][\A c \in Components :
          (/\ component_status[c] = "RUNNING"
           /\ component_status'[c] \in Finished
           /\ ret = Payload(c, "error"))
          => component_status'[c] = "FAILED"]_vars

C27_EmptyBaseQueryRejected ==
    (query_set.kind # "none" /\ query_input.base_query = "") =>
        query_set.kind = "raised"

\* C28: a thread changes the recursion table or the RunState table only
\* while it holds the lock, and the store of an increment leaves the counter
\* one above what it was, whatever the other thread does.
C28_MutationsUnderLockNoLostIncrement ==
    [][\A t \in Threads :
          /\ (/\ enter_pc'[t] # enter_pc[t]
              /\ \/ global_recursion_depth' # global_recursion_depth
                 \/ execution_state' # execution_state)
             => sync_lock = t
          /\ (enter_pc[t] = "loaded" /\ enter_pc'[t] = "stored")
             => DepthOf(global_recursion_depth', RaceComponent, data_session)
                  = DepthOf(global_recursion_depth, RaceComponent,
                            data_session) + 1]_vars

\* A nested value of the size the cleaning is meant to strip.
LargeNested(value) ==
    /\ value.type \in {"dict", "list"}
    /\ value.size >= max_master_dict_len

\* C29: the cleaning leaves the data bag as it was and returns a bag with no
\* intermediate-result key and no large nested value, mapping or list.
C29_MasterInputSanitized ==
    [][clean_output'.kind = "returned" =>
          /\ clean_input' = clean_input
          /\ DOMAIN clean_output'.data \cap IntermediateResultKeys = {}
          /\ \A key \in DOMAIN clean_output'.data :
                ~LargeNested(clean_output'.data[key])]_vars

\* The components reached from those of S along at most n dependency edges.
RECURSIVE UpstreamWithin(_, _)
UpstreamWithin(S, n) ==
    IF n = 0 THEN S
    ELSE UpstreamWithin(S \cup UNION {Dependencies(c) : c \in S}, n - 1)

\* Everything c depends on, directly or not.
Upstream(c) == UpstreamWithin(Dependencies(c), Cardinality(Components))

\* C31: every declared dependency is a registered component, no component
\* depends on itself directly or indirectly, every component is registered
\* after all of its dependencies, and the schedule never gets stuck: while a
\* component of a run has not started and none is running, one is eligible.
C31_DependencyGraphWellFormed ==
    /\ {RegistrationOrder[i] : i \in DOMAIN RegistrationOrder} = Components
    /\ \A c \in Components : Dependencies(c) \subseteq Components
    /\ \A c \in Components : c \notin Upstream(c)
    /\ \A i \in DOMAIN RegistrationOrder :
          \A d \in Dependencies(RegistrationOrder[i]) :
              \E j \in 1 .. (i - 1) : RegistrationOrder[j] = d
    /\ (/\ pc = "components"
        /\ \E c \in Components : component_status[c] = "NOT_STARTED"
        /\ \A c \in Components : component_status[c] # "RUNNING")
       => \E c \in Components : Eligible(component_status, c)

\* A run in which all eight components have been scheduled and have finished.
C31_Witness ==
    /\ pc = "components"
    /\ \A c \in Components : component_status[c] \in Finished

\* C32: the aggregation hands back an envelope in which a provider with an
\* error field has a result count of zero.
C32_ErroredProviderHasNoResults ==
    SearchDone =>
        /\ search_outcome.kind = "returned"
        /\ \A p \in search_outcome.envelope.provider_errors :
              /\ (p \o "_count") \in DOMAIN search_outcome.envelope.statistics
              /\ search_outcome.envelope.statistics[p \o "_count"] = 0

WebDone == web_outcome.kind # "none"

\* The results of the tasks that reported success, summed.
RECURSIVE SuccessfulResults(_, _)
SuccessfulResults(in, keys) ==
    IF keys = {} THEN 0
    ELSE LET key == CHOOSE k \in keys : TRUE
             t   == WebTaskOf(in, key)
         IN  (IF t.kind = "success" THEN t.n ELSE 0)
                 + SuccessfulResults(in, keys \ {key})

\* C33: the comprehensive search returns for every combination of provider
\* outcomes and every finishing order; each dispatched provider that did not
\* report success has an error record with an empty list, and total_results
\* is the sum over the providers that reported success.
C33_ComprehensiveSearchToleratesProviders ==
    WebDone =>
        /\ web_outcome.kind = "returned"
        /\ \A key \in WebDispatchedSet(web_input) :
              WebTaskOf(web_input, key).kind # "success" =>
                 web_outcome.results.entries[key] =
                    [kind |-> "error_record", n |-> 0]
        /\ web_outcome.results.total_results =
              SuccessfulResults(web_input, WebDispatchedSet(web_input))

\* C34: every process has 0 <= current_step <= total_steps and as many
\* insights and reasoning entries as steps taken.
C34_StepCountersConsistent ==
    \A id \in DOMAIN active_processes :
        LET process == active_processes[id]
        IN  /\ 0 <= process.current_step
            /\ process.current_step <= process.total_steps
            /\ Len(process.insights) = process.current_step
            /\ Len(process.reasoning_chain) = process.current_step

\* A process taken to its last step while another one is under way.
C34_Witness ==
    /\ \E id \in DOMAIN active_processes :
          active_processes[id].current_step = active_processes[id].total_steps
    /\ \E id \in DOMAIN active_processes :
          /\ active_processes[id].current_step > 0
          /\ active_processes[id].current_step < active_processes[id].total_steps

\* C35: a process has status completed exactly when its current_step has
\* reached total_steps.
C35_CompletedIffAllStepsTaken ==
    \A id \in DOMAIN active_processes :
        active_processes[id].status = "completed"
            <=> active_processes[id].current_step
                    >= active_processes[id].total_steps

\* A process completed by its last step while another process is failed.
C35_Witness ==
    /\ thinking_ret.op = "advance"
    /\ thinking_ret.kind = "success"
    /\ thinking_ret.process_id \in DOMAIN active_processes
    /\ active_processes[thinking_ret.process_id].status = "completed"
    /\ \E id \in DOMAIN active_processes :
          active_processes[id].status = "failed"

\* C36: a process whose status is failed takes no further step and is never
\* completed.
C36_FailedProcessNeverAdvanced ==
    [][\A id \in DOMAIN active_processes :
          active_processes[id].status = "failed" =>
             /\ active_processes'[id].current_step
                   <= active_processes[id].current_step
             /\ active_processes'[id].status # "completed"]_vars

\* C37: no call of the manager ends with an exception.
C37_AdvanceNeverRaises == thinking_ret.kind # "raised"

\* C38: a successful start returns an id no existing process has and leaves
\* every existing process as it was.
C38_StartNeverOverwrites ==
    [][(/\ thinking_ret'.op = "start"
        /\ thinking_ret'.kind = "success"
        /\ active_processes' # active_processes)
       => /\ thinking_ret'.process_id \notin DOMAIN active_processes
          /\ \A id \in DOMAIN active_processes :
                active_processes'[id] = active_processes[id]]_vars

\* C39: after an advance that did not succeed the table holds the same
\* processes with the same current_step, insights and reasoning_chain; a
\* process that changed is the addressed one and only its status changed, to
\* failed.
C39_FailedAdvanceFrame ==
    [][(thinking_ret'.op = "advance" /\ thinking_ret'.kind # "success")
       => /\ DOMAIN active_processes' = DOMAIN active_processes
          /\ \A id \in DOMAIN active_processes :
                /\ active_processes'[id].current_step =
                      active_processes[id].current_step
                /\ active_processes'[id].insights =
                      active_processes[id].insights
                /\ active_processes'[id].reasoning_chain =
                      active_processes[id].reasoning_chain
                /\ active_processes'[id] # active_processes[id]
                      => /\ thinking_ret'.process_id = id
                         /\ active_processes'[id] =
                               [active_processes[id] EXCEPT
                                   !.status = "failed"]]_vars

\* An advance that failed at the remote service on a process that had
\* already taken a step.
C39_Witness ==
    /\ thinking_ret.op = "advance"
    /\ thinking_ret.kind = "error"
    /\ thinking_ret.process_id \in DOMAIN active_processes
    /\ active_processes[thinking_ret.process_id].status = "failed"
    /\ active_processes[thinking_ret.process_id].current_step > 0

\* C40: a start that does not report success returns process_id None and
\* leaves the table as it was; the table grows only with a start that the
\* remote service answered with success; a disabled manager sends nothing.
C40_ProcessAddedOnlyOnRemoteSuccess ==
    [][/\ (thinking_ret'.op = "start" /\ thinking_ret'.kind # "success")
             => /\ thinking_ret'.process_id = "None"
                /\ active_processes' = active_processes
       /\ DOMAIN active_processes' # DOMAIN active_processes
             => /\ thinking_ret'.op = "start"
                /\ thinking_ret'.kind = "success"
                /\ thinking_ret'.sent
                /\ thinking_ret'.remote = "success"
       /\ ~mcp_enabled => (~thinking_ret'.sent /\ active_processes' = <<>>)]_vars

\* A start refused by the remote service while a process exists.
C40_Witness ==
    /\ thinking_ret.op = "start"
    /\ thinking_ret.kind = "error"
    /\ thinking_ret.sent
    /\ DOMAIN active_processes # {}

====
